---- MODULE Spec2Model ----
(***************************************************************************)
(* Verification model of re-cinq/cloud-carbon:                             *)
(*   - the GCP account scheduler (gcpScheduler: process, Schedule, Cancel) *)
(*   - the EC2 resource discovery (ec2Client.Refresh)                      *)
(*   - the emissions calculator (CalculatorHandler.Handle / handleEvent)   *)
(* Each part has its own specification over its own variables; the other   *)
(* parts' variables stay at their initial value.                           *)
(***************************************************************************)
EXTENDS Integers, Sequences, FiniteSets, TLC

(***************************************************************************)
(* Bounds of the model                                                     *)
(***************************************************************************)
\* number of times the ticker fires in a behaviour
MaxTicks == 2
\* number of Cancel calls the caller issues
MaxCancels == 2
\* number of instances one provider call returns
MaxInst == 2
\* number of pages DescribeInstances serves for a region
MaxPages == 2
\* number of events handed to the calculator
MaxEvents == 2

(***************************************************************************)
(* Scheduler: state                                                        *)
(***************************************************************************)
VARIABLES
    project,        \* s.project (account.Project), "" when not configured
    accountInterval,\* s.account.Interval, in minutes
    tickerC,        \* number of ticks buffered in s.ticker.C (capacity 1)
    tickerStopped,  \* s.ticker.Stop() was called
    ticksFired,     \* ticks the runtime timer produced so far
    ticksReceived,  \* ticks the loop goroutine received from s.ticker.C
    callerPc,       \* position of the goroutine that calls Schedule / Cancel
    loopPc,         \* position of the goroutine started by Schedule
    cancelCalls,    \* Cancel calls issued
    cancelsReturned,\* Cancel calls that returned
    released,       \* s.shutdown() and s.gce.Close() calls made
    passPc,         \* per goroutine: position inside process()
    passWindow,     \* per goroutine: interval argument of the provider call
    passInsts,      \* per goroutine: instances the provider call returned
    passPubd,       \* per goroutine: events published by the current/last pass
    passOutcome,    \* per goroutine: how the current/last pass ended
    passesStarted   \* per goroutine: calls of process() made

schedVars == <<project, accountInterval, tickerC, tickerStopped, ticksFired,
               ticksReceived, callerPc, loopPc, cancelCalls, cancelsReturned,
               released, passPc, passWindow, passInsts, passPubd, passOutcome,
               passesStarted>>

(***************************************************************************)
(* EC2 discovery and calculator: state                                     *)
(***************************************************************************)
VARIABLES
    ecPages,        \* the pages DescribeInstances serves for the region
    ecPc,           \* position inside ec2Client.Refresh
    ecOutput,       \* output: index of the page the last call returned
    ecCollected,    \* instances: the pages collected so far
    ecCache,        \* e.cache: the resources stored
    ecCacheBefore,  \* e.cache when Refresh was called
    ecResult        \* what Refresh returned: "none" while it runs

ecVars == <<ecPages, ecPc, ecOutput, ecCollected, ecCache, ecCacheBefore,
            ecResult>>

VARIABLES
    calcHandler,    \* what NewHandler returned: "none" before the call
    awsInstances,   \* the package variable awsInstances (precise dataset)
    calcInterval,   \* config.AppConfig().ProvidersConfig.Interval, minutes
    calcLast,       \* the last event handled and what handling it did
    calcHandled,    \* events handed to Handle
    calcPublished,  \* events the handler published on the bus
    factorLoads,    \* calls of factors.GetProviderEmissionFactors
    factorsSetup    \* how NewHandler's dataset setup went: "none" before the
                    \* call, "clone_failed", "fetch_failed" or "ok"

calcVars == <<calcHandler, awsInstances, calcInterval, calcLast, calcHandled,
              calcPublished, factorLoads, factorsSetup>>

vars == <<schedVars, ecVars, calcVars>>

\* the two goroutines that run process(): Schedule's caller and the loop
Threads == {"caller", "loop"}

\* account.Project values: not configured, configured
Projects == {"", "my-project"}

\* account.Interval values, in minutes
Intervals == {1, 5}

\* instances the provider collaborator can report
Instances == {"vm-a", "vm-b"}

RECURSIVE SeqsUpTo(_, _)
SeqsUpTo(S, n) ==
    IF n = 0 THEN {<<>>}
    ELSE LET shorter == SeqsUpTo(S, n - 1)
         IN  shorter \cup {Append(s, x) : s \in shorter, x \in S}

\* v1.MetricsCollected{Instance: instance}
MetricsCollected(instance) ==
    [topic |-> "MetricsCollected", Instance |-> instance]

\* the "5m" literal handed to GetMetricsForInstances, in minutes
HardcodedWindow == 5

SchedInit ==
    /\ project \in Projects
    /\ accountInterval \in Intervals
    /\ tickerC = 0
    /\ tickerStopped = FALSE
    /\ ticksFired = 0
    /\ ticksReceived = 0
    /\ callerPc = "idle"
    /\ loopPc = "none"
    /\ cancelCalls = 0
    /\ cancelsReturned = 0
    /\ released = 0
    /\ passPc = [t \in Threads |-> "idle"]
    /\ passWindow = [t \in Threads |-> 0]
    /\ passInsts = [t \in Threads |-> <<>>]
    /\ passPubd = [t \in Threads |-> <<>>]
    /\ passOutcome = [t \in Threads |-> "none"]
    /\ passesStarted = [t \in Threads |-> 0]

(***************************************************************************)
(* Scheduler: operations                                                   *)
(***************************************************************************)
cfgVars == <<project, accountInterval>>
tickVars == <<tickerC, tickerStopped, ticksFired>>
cancelVars == <<cancelCalls, cancelsReturned, released>>
passData == <<passWindow, passInsts, passPubd, passOutcome, passesStarted>>

\* the runtime timer fires: time.Ticker sends on a channel of capacity 1 and
\* drops the tick when the channel is full; a stopped ticker sends nothing
Tick ==
    /\ ~tickerStopped
    /\ ticksFired < MaxTicks
    /\ ticksFired' = ticksFired + 1
    /\ tickerC' = 1
    /\ UNCHANGED <<cfgVars, tickerStopped, ticksReceived, callerPc, loopPc,
                   cancelVars, passPc, passData>>
    /\ UNCHANGED <<ecVars, calcVars>>

\* goroutine t is about to call s.process()
EnterPass(t) ==
    /\ passPc' = [passPc EXCEPT ![t] = "entry"]
    /\ passWindow' = [passWindow EXCEPT ![t] = 0]
    /\ passInsts' = [passInsts EXCEPT ![t] = <<>>]
    /\ passPubd' = [passPubd EXCEPT ![t] = <<>>]
    /\ passOutcome' = [passOutcome EXCEPT ![t] = "none"]

\* s.process() returns to goroutine t: Schedule returns to its caller, the
\* loop goes back to its select
ReturnFromPass(t) ==
    /\ passPc' = [passPc EXCEPT ![t] = "idle"]
    /\ IF t = "caller"
       THEN callerPc' = "ready" /\ UNCHANGED loopPc
       ELSE loopPc' = "select" /\ UNCHANGED callerPc

\* ScheduleCall without the first call of process(): collection would start
\* at the first tick only
ScheduleWithoutFirstCall ==
    /\ callerPc = "idle"
    /\ loopPc' = "select"
    /\ callerPc' = "ready"
    /\ UNCHANGED <<cfgVars, tickVars, ticksReceived, cancelVars, passPc,
                   passData>>
    /\ UNCHANGED <<ecVars, calcVars>>

\* Schedule(): start the loop goroutine, then make the first call of process()
ScheduleCall ==
    /\ callerPc = "idle"
    /\ loopPc' = "select"
    /\ callerPc' = "process"
    /\ EnterPass("caller")
    /\ UNCHANGED <<cfgVars, tickVars, ticksReceived, cancelVars, passesStarted>>
    /\ UNCHANGED <<ecVars, calcVars>>

\* process(), up to the provider call: return when no project is configured,
\* else call GetMetricsForInstances(ctx, "5m")
ProcessEntry(t) ==
    /\ passPc[t] = "entry"
    /\ passesStarted' = [passesStarted EXCEPT ![t] = @ + 1]
    /\ IF project = ""
       THEN /\ passOutcome' = [passOutcome EXCEPT ![t] = "skip"]
            /\ ReturnFromPass(t)
            /\ UNCHANGED passWindow
       ELSE /\ passPc' = [passPc EXCEPT ![t] = "call"]
            /\ passWindow' = [passWindow EXCEPT ![t] = HardcodedWindow]
            /\ UNCHANGED <<passOutcome, callerPc, loopPc>>
    /\ UNCHANGED <<cfgVars, tickVars, ticksReceived, cancelVars, passInsts,
                   passPubd>>
    /\ UNCHANGED <<ecVars, calcVars>>

\* GetMetricsForInstances returns instances and no error
ProviderOk(t) ==
    /\ passPc[t] = "call"
    /\ \E insts \in SeqsUpTo(Instances, MaxInst) :
          passInsts' = [passInsts EXCEPT ![t] = insts]
    /\ passOutcome' = [passOutcome EXCEPT ![t] = "ok"]
    /\ passPc' = [passPc EXCEPT ![t] = "publish"]
    /\ UNCHANGED <<cfgVars, tickVars, ticksReceived, callerPc, loopPc,
                   cancelVars, passWindow, passPubd, passesStarted>>
    /\ UNCHANGED <<ecVars, calcVars>>

\* ProviderErr ending the goroutine instead of returning to it (a fatal log
\* or a return out of the loop)
ProviderErrFatal(t) ==
    /\ passPc[t] = "call"
    /\ passOutcome' = [passOutcome EXCEPT ![t] = "err"]
    /\ passPc' = [passPc EXCEPT ![t] = "idle"]
    /\ IF t = "caller"
       THEN callerPc' = "ready" /\ UNCHANGED loopPc
       ELSE loopPc' = "exited" /\ UNCHANGED callerPc
    /\ UNCHANGED <<cfgVars, tickVars, ticksReceived, cancelVars, passWindow,
                   passInsts, passPubd, passesStarted>>
    /\ UNCHANGED <<ecVars, calcVars>>

\* GetMetricsForInstances returns an error: process() logs it and returns
ProviderErr(t) ==
    /\ passPc[t] = "call"
    /\ passOutcome' = [passOutcome EXCEPT ![t] = "err"]
    /\ ReturnFromPass(t)
    /\ UNCHANGED <<cfgVars, tickVars, ticksReceived, cancelVars, passWindow,
                   passInsts, passPubd, passesStarted>>
    /\ UNCHANGED <<ecVars, calcVars>>

\* GetMetricsForInstances(context.TODO(), ...) carries no deadline: the call
\* may never return
ProviderHang(t) ==
    /\ passPc[t] = "call"
    /\ passPc' = [passPc EXCEPT ![t] = "hung"]
    /\ UNCHANGED <<cfgVars, tickVars, ticksReceived, callerPc, loopPc,
                   cancelVars, passData>>
    /\ UNCHANGED <<ecVars, calcVars>>

\* PublishNext publishing the last element on every iteration (the range
\* variable captured by reference)
PublishNextCaptured(t) ==
    /\ passPc[t] = "publish"
    /\ Len(passPubd[t]) < Len(passInsts[t])
    /\ passPubd' = [passPubd EXCEPT ![t] =
          Append(@, MetricsCollected(passInsts[t][Len(passInsts[t])]))]
    /\ UNCHANGED <<cfgVars, tickVars, ticksReceived, callerPc, loopPc,
                   cancelVars, passPc, passWindow, passInsts, passOutcome,
                   passesStarted>>
    /\ UNCHANGED <<ecVars, calcVars>>

\* one iteration of the range loop: publish the next returned instance
PublishNext(t) ==
    /\ passPc[t] = "publish"
    /\ Len(passPubd[t]) < Len(passInsts[t])
    /\ passPubd' = [passPubd EXCEPT ![t] =
          Append(@, MetricsCollected(passInsts[t][Len(@) + 1]))]
    /\ UNCHANGED <<cfgVars, tickVars, ticksReceived, callerPc, loopPc,
                   cancelVars, passPc, passWindow, passInsts, passOutcome,
                   passesStarted>>
    /\ UNCHANGED <<ecVars, calcVars>>

\* the range loop is over: process() returns
ProcessReturn(t) ==
    /\ passPc[t] = "publish"
    /\ Len(passPubd[t]) = Len(passInsts[t])
    /\ ReturnFromPass(t)
    /\ UNCHANGED <<cfgVars, tickVars, ticksReceived, cancelVars, passData>>
    /\ UNCHANGED <<ecVars, calcVars>>

\* LoopRecvTick under a lock held by the pass in flight: the tick is taken
\* only when the immediate pass has returned
LoopRecvTickAfterImmediate ==
    /\ loopPc = "select"
    /\ tickerC = 1
    /\ passPc["caller"] = "idle"
    /\ tickerC' = 0
    /\ ticksReceived' = ticksReceived + 1
    /\ loopPc' = "process"
    /\ EnterPass("loop")
    /\ UNCHANGED <<cfgVars, tickerStopped, ticksFired, callerPc, cancelVars,
                   passesStarted>>
    /\ UNCHANGED <<ecVars, calcVars>>

\* LoopRecvTick starting the pass whether or not the previous one returned
\* (a pass per tick)
LoopRecvTickPerTick ==
    /\ loopPc \in {"select", "process"}
    /\ tickerC = 1
    /\ tickerC' = 0
    /\ ticksReceived' = ticksReceived + 1
    /\ loopPc' = "process"
    /\ EnterPass("loop")
    /\ UNCHANGED <<cfgVars, tickerStopped, ticksFired, callerPc, cancelVars,
                   passesStarted>>
    /\ UNCHANGED <<ecVars, calcVars>>

\* the loop's select takes the case <-s.ticker.C and calls s.process()
LoopRecvTick ==
    /\ loopPc = "select"
    /\ tickerC = 1
    /\ tickerC' = 0
    /\ ticksReceived' = ticksReceived + 1
    /\ loopPc' = "process"
    /\ EnterPass("loop")
    /\ UNCHANGED <<cfgVars, tickerStopped, ticksFired, callerPc, cancelVars,
                   passesStarted>>
    /\ UNCHANGED <<ecVars, calcVars>>

\* LoopRecvDone leaving only the select (a break instead of the return): the
\* for loop goes on
LoopRecvDoneBreak ==
    /\ loopPc = "select"
    /\ callerPc = "cancel_send"
    /\ loopPc' = "select"
    /\ callerPc' = "cancel_stop"
    /\ UNCHANGED <<cfgVars, tickVars, ticksReceived, cancelVars, passPc,
                   passData>>
    /\ UNCHANGED <<ecVars, calcVars>>

\* the loop's select takes the case <-s.done and the goroutine returns; done is
\* unbuffered, so this is the rendezvous with Cancel's s.done <- true
LoopRecvDone ==
    /\ loopPc = "select"
    /\ callerPc = "cancel_send"
    /\ loopPc' = "exited"
    /\ callerPc' = "cancel_stop"
    /\ UNCHANGED <<cfgVars, tickVars, ticksReceived, cancelVars, passPc,
                   passData>>
    /\ UNCHANGED <<ecVars, calcVars>>

\* Cancel() is called, by the goroutine that called Schedule and after
\* Schedule returned (Idle -> Scheduled -> Cancelled), and reaches
\* s.done <- true
CancelCall ==
    /\ callerPc = "ready"
    /\ cancelCalls < MaxCancels
    /\ cancelCalls' = cancelCalls + 1
    /\ callerPc' = "cancel_send"
    /\ UNCHANGED <<cfgVars, tickVars, ticksReceived, loopPc, cancelsReturned,
                   released, passPc, passData>>
    /\ UNCHANGED <<ecVars, calcVars>>

\* Cancel(): s.ticker.Stop()
CancelStopTicker ==
    /\ callerPc = "cancel_stop"
    /\ tickerStopped' = TRUE
    /\ callerPc' = "cancel_release"
    /\ UNCHANGED <<cfgVars, tickerC, ticksFired, ticksReceived, loopPc,
                   cancelVars, passPc, passData>>
    /\ UNCHANGED <<ecVars, calcVars>>

\* Cancel(): s.shutdown(), s.gce.Close(), return
CancelRelease ==
    /\ callerPc = "cancel_release"
    /\ released' = released + 1
    /\ cancelsReturned' = cancelsReturned + 1
    /\ callerPc' = "ready"
    /\ UNCHANGED <<cfgVars, tickVars, ticksReceived, loopPc, cancelCalls,
                   passPc, passData>>
    /\ UNCHANGED <<ecVars, calcVars>>

SchedNext ==
    \/ Tick
    \/ ScheduleCall
    \/ \E t \in Threads : ProcessEntry(t)
    \/ \E t \in Threads : ProviderOk(t)
    \/ \E t \in Threads : ProviderErr(t)
    \/ \E t \in Threads : ProviderHang(t)
    \/ \E t \in Threads : PublishNext(t)
    \/ \E t \in Threads : ProcessReturn(t)
    \/ LoopRecvTick
    \/ LoopRecvDone
    \/ CancelCall
    \/ CancelStopTicker
    \/ CancelRelease

(***************************************************************************)
(* EC2 discovery: ec2Client.Refresh                                        *)
(***************************************************************************)
\* the region Refresh is called for
Region == "eu-north-1"

\* Reservations of one DescribeInstancesOutput: a sequence of reservations,
\* each a sequence of instance ids
PageChoices ==
    { <<>>,
      << <<"i-1">> >>,
      << <<"i-2">>, <<"i-3", "i-4">> >>,
      << <<>>, <<"i-5">> >> }

\* the sequences over S of length 1..n
NonEmptySeqsUpTo(S, n) == SeqsUpTo(S, n) \ {<<>>}

\* newAWSResource(region, ec2Service, id, ...): the resource stored for an
\* instance
AWSResource(region, id) ==
    [region |-> region, service |-> "ec2", id |-> id]

\* the resources of every instance of every reservation of one page
PageResources(page) ==
    UNION { { AWSResource(Region, page[r][i]) : i \in 1..Len(page[r]) } :
            r \in 1..Len(page) }

\* output.NextToken != nil: the service has a further page
HasNextToken(k) == k < Len(ecPages)

EcInit ==
    /\ ecPages \in NonEmptySeqsUpTo(PageChoices, MaxPages)
    /\ ecPc = "start"
    /\ ecOutput = 0
    /\ ecCollected = <<>>
    /\ ecCache \in { {}, {AWSResource(Region, "i-0")} }
    /\ ecCacheBefore = ecCache
    /\ ecResult = "none"

\* RefreshFirst adding the instances of the page to the cache as soon as the
\* page is fetched
RefreshFirstStoring ==
    /\ ecPc = "start"
    /\ ecOutput' = 1
    /\ ecCollected' = <<ecPages[1]>>
    /\ ecPc' = "paging"
    /\ ecCache' = ecCache \cup PageResources(ecPages[1])
    /\ UNCHANGED <<ecPages, ecCacheBefore, ecResult>>
    /\ UNCHANGED <<schedVars, calcVars>>

\* the first DescribeInstances call returns a page
RefreshFirst ==
    /\ ecPc = "start"
    /\ ecOutput' = 1
    /\ ecCollected' = <<ecPages[1]>>
    /\ ecPc' = "paging"
    /\ UNCHANGED <<ecPages, ecCache, ecCacheBefore, ecResult>>
    /\ UNCHANGED <<schedVars, calcVars>>

\* the first DescribeInstances call returns an error or no output
RefreshFirstFails ==
    /\ ecPc = "start"
    /\ ecResult' = "error"
    /\ ecPc' = "done"
    /\ UNCHANGED <<ecPages, ecOutput, ecCollected, ecCache, ecCacheBefore>>
    /\ UNCHANGED <<schedVars, calcVars>>

\* output.NextToken is set: the follow-up call returns the next page
RefreshNextPage ==
    /\ ecPc = "paging"
    /\ HasNextToken(ecOutput)
    /\ ecOutput' = ecOutput + 1
    /\ ecCollected' = Append(ecCollected, ecPages[ecOutput + 1])
    /\ UNCHANGED <<ecPages, ecPc, ecCache, ecCacheBefore, ecResult>>
    /\ UNCHANGED <<schedVars, calcVars>>

\* output.NextToken is set: the follow-up call returns an error or no output
RefreshNextPageFails ==
    /\ ecPc = "paging"
    /\ HasNextToken(ecOutput)
    /\ ecResult' = "error"
    /\ ecPc' = "done"
    /\ UNCHANGED <<ecPages, ecOutput, ecCollected, ecCache, ecCacheBefore>>
    /\ UNCHANGED <<schedVars, calcVars>>

\* no further page: the loops over output.Reservations add every instance of
\* the page held in output to the cache, and Refresh returns nil
RefreshStore ==
    /\ ecPc = "paging"
    /\ ~HasNextToken(ecOutput)
    /\ ecCache' = ecCache \cup PageResources(ecPages[ecOutput])
    /\ ecResult' = "nil"
    /\ ecPc' = "done"
    /\ UNCHANGED <<ecPages, ecOutput, ecCollected, ecCacheBefore>>
    /\ UNCHANGED <<schedVars, calcVars>>

EcNext ==
    \/ RefreshFirst
    \/ RefreshFirstFails
    \/ RefreshNextPage
    \/ RefreshNextPageFails
    \/ RefreshStore

(***************************************************************************)
(* Calculator: values                                                      *)
(***************************************************************************)
\* float64 values are modelled as exact fractions <<numerator, denominator>>
RECURSIVE Gcd(_, _)
Gcd(a, b) == IF b = 0 THEN a ELSE Gcd(b, a % b)

Abs(a) == IF a < 0 THEN -a ELSE a

Frac(n, d) ==
    LET g == Gcd(Abs(n), Abs(d))
    IN  IF g = 0 THEN <<0, 1>> ELSE <<n \div g, d \div g>>

Whole(n) == <<n, 1>>

FMul(a, b) == Frac(a[1] * b[1], a[2] * b[2])

FDiv(a, b) == Frac(a[1] * b[2], a[2] * b[1])

\* const serverLifespan
serverLifespan == 6

\* v1.CPU.String(), v1.Memory.String(), ...
CPU == "cpu"
Memory == "memory"
Storage == "storage"
Network == "network"

\* event types of the bus
MetricsCollectedEvent == "MetricsCollected"
EmissionsCalculatedEvent == "EmissionsCalculated"

\* a metric or an instance that carries no emission value
NoEmission == [set |-> FALSE]

\* v1.NewResourceEmission(value, v1.GCO2eqkWh)
NewResourceEmission(value) ==
    [set |-> TRUE, value |-> value, unit |-> "gCO2eqkWh"]

\* the provider factor files read by factors.GetProviderEmissionFactors:
\* average PUE, grid intensity per region (metric tons), embodied specs per
\* kind
ProviderFactors ==
    [aws |->
       [AveragePUE |-> Frac(6, 5),
        Coefficient |-> [r \in {"eu-west-1"} |-> Frac(379, 1000000)],
        Embodied |->
           [k \in {"m5.large", "t3.nano", "c5.metal"} |->
              [MinWatts |-> Whole(1),
               MaxWatts |-> Whole(5),
               TotalEmbodiedKiloWattCO2e |-> Whole(1200),
               VCPU |-> IF k = "t3.nano" THEN Whole(2) ELSE Whole(4),
               TotalVCPU |-> Whole(96)]]]]

\* the per-kind dataset (v2) fetched by getProviderEC2EmissionFactors: one
\* kind with a full curve, one known to this dataset only, one whose entry
\* has neither a curve nor a vCPU count
PreciseData ==
    [k \in {"m5.large", "p4d.24xlarge", "c5.metal"} |->
       IF k = "c5.metal"
       THEN [PkgWatt |-> <<>>, VCPU |-> 0, EmbodiedHourlyGCO2e |-> Frac(3, 2)]
       ELSE [PkgWatt |-> << [Percentage |-> 0, Wattage |-> Whole(2)],
                            [Percentage |-> 10, Wattage |-> Whole(4)],
                            [Percentage |-> 50, Wattage |-> Whole(9)],
                            [Percentage |-> 100, Wattage |-> Whole(13)] >>,
             VCPU |-> 2,
             EmbodiedHourlyGCO2e |-> Frac(5, 2)]]

\* a nil map
EmptyTable == [k \in {} |-> 0]

\* v1.Metrics holding the given metrics, keyed by name
MetricsOf(ms) == [n \in {m.Name : m \in ms} |-> CHOOSE m \in ms : m.Name = n]

Metric(name, usage, unitAmount) ==
    [Name |-> name, Usage |-> usage, UnitAmount |-> unitAmount,
     Emissions |-> NoEmission]

MetricsChoices ==
    { MetricsOf({}),
      MetricsOf({Metric(CPU, 50, 4)}),
      MetricsOf({Metric(CPU, 50, 0)}),
      MetricsOf({Metric(Memory, 30, 8)}),
      MetricsOf({Metric(CPU, 100, 2), Metric(Memory, 30, 8),
                 Metric(Storage, 10, 100), Metric(Network, 5, 1)}),
      MetricsOf({Metric(CPU, 0, 0), Metric("gpu", 70, 1)}) }

InstanceChoices ==
    [Provider : {"aws", "onprem"},
     Region : {"eu-west-1", "mars-1"},
     Kind : {"m5.large", "t3.nano", "c5.metal", "p4d.24xlarge", "z9.tiny"},
     Name : {"vm"},
     Metrics : MetricsChoices,
     EmbodiedEmissions : {NoEmission}]

\* e.Data holding a v1.Instance, and e.Data holding something else
InstanceData(instance) == [kind |-> "Instance", value |-> instance]
OtherData == [kind |-> "string", value |-> [text |-> "payload"]]

\* the bus events Handle can be handed
Events ==
    [Type : {MetricsCollectedEvent}, Data : {InstanceData(i) : i \in InstanceChoices}]
    \cup [Type : {MetricsCollectedEvent}, Data : {OtherData}]
    \cup [Type : {EmissionsCalculatedEvent, "Unknown"},
          Data : {OtherData,
                  InstanceData([Provider |-> "aws", Region |-> "eu-west-1",
                                Kind |-> "m5.large", Name |-> "vm",
                                Metrics |-> MetricsOf({Metric(CPU, 50, 4)}),
                                EmbodiedEmissions |-> NoEmission])}]


(***************************************************************************)
(* Calculator: calculation                                                 *)
(***************************************************************************)
Failed(msg) == [err |-> TRUE, msg |-> msg]
Computed(value) == [err |-> FALSE, value |-> value]

\* cubicSplineInterpolation: fails on an empty curve, else the value of the
\* cubic spline through the control points at `value`, in kilowatts; the
\* spline is the gospline library's and is kept as its arguments
cubicSplineInterpolation(wattage, value) ==
    IF Len(wattage) = 0
    THEN Failed("error: cannot calculate CPU energy, no wattage found")
    ELSE Computed([spline |->
                     [x |-> [i \in 1..Len(wattage) |-> wattage[i].Percentage],
                      y |-> [i \in 1..Len(wattage) |-> wattage[i].Wattage]],
                   at |-> value,
                   dividedBy |-> 1000])

\* cpu taking the metric's UnitAmount first and the dataset's count only
\* when the metric has none
cpuPrefersUnitAmount(interval, p, metric) ==
    IF p.vCPU = 0 /\ metric.UnitAmount = 0
    THEN [err |-> TRUE, msg |-> "error vCPU set to 0"]
    ELSE LET vCPU == IF metric.UnitAmount = 0 THEN p.vCPU
                     ELSE metric.UnitAmount
             kw == cubicSplineInterpolation(p.wattage, metric.Usage)
         IN  IF kw.err
             THEN kw
             ELSE [err |-> FALSE,
                   value |-> [usageCPUkw |-> kw.value,
                              vCPUHours |-> FMul(Frac(interval, 60), Whole(vCPU)),
                              pue |-> p.pue,
                              gridCO2e |-> p.gridCO2e]]

\* cpu: the vCPU count is the dataset's, or the metric's UnitAmount when the
\* dataset's is 0; the emission is usageCPUkw * vCPUHours * pue * gridCO2e,
\* kept as its four factors
cpu(interval, p, metric) ==
    IF p.vCPU = 0 /\ metric.UnitAmount = 0
    THEN Failed("error vCPU set to 0")
    ELSE LET vCPU == IF p.vCPU = 0 THEN metric.UnitAmount ELSE p.vCPU
             vCPUHours == FMul(Frac(interval, 60), Whole(vCPU))
             usageCPUkw == cubicSplineInterpolation(p.wattage, metric.Usage)
         IN  IF usageCPUkw.err
             THEN usageCPUkw
             ELSE Computed([usageCPUkw |-> usageCPUkw.value,
                            vCPUHours |-> vCPUHours,
                            pue |-> p.pue,
                            gridCO2e |-> p.gridCO2e])

\* operationalEmissions returning the zero value without the error for the
\* kinds that are not calculated
operationalEmissionsZero(interval, p, metric) ==
    IF metric.Name = CPU
    THEN cpu(interval, p, metric)
    ELSE Computed([usageCPUkw |-> 0, vCPUHours |-> Whole(0),
                   pue |-> p.pue, gridCO2e |-> p.gridCO2e])

\* operationalEmissions: the switch on the metric's name
operationalEmissions(interval, p, metric) ==
    CASE metric.Name = CPU -> cpu(interval, p, metric)
      [] metric.Name = Memory ->
            Failed("error memory is not yet being calculated")
      [] metric.Name = Storage ->
            Failed("error storage is not yet being calculated")
      [] metric.Name = Network ->
            Failed("error networking is not yet being calculated")
      [] OTHER -> Failed("error metric not supported")

\* embodiedEmissions without the scaling to the interval
embodiedEmissionsHourly(interval, hourlyEmbodied) == hourlyEmbodied

\* embodiedEmissions: hourlyEmbodied / 60 * interval.Minutes()
embodiedEmissions(interval, hourlyEmbodied) ==
    FMul(FDiv(hourlyEmbodied, Whole(60)), Whole(interval))

\* hourlyEmbodiedEmissions without the division by the server lifespan
hourlyEmbodiedOneYear(e) ==
    FMul(FMul(e.TotalEmbodiedKiloWattCO2e,
              FDiv(FDiv(Whole(1), Whole(24)), Whole(365))),
         FDiv(e.VCPU, e.TotalVCPU))

\* hourlyEmbodiedEmissions: TE * ((1 / 24 / 365) / serverLifespan)
\*                             * (VCPU / TotalVCPU)
hourlyEmbodiedEmissions(e) ==
    FMul(FMul(e.TotalEmbodiedKiloWattCO2e,
              FDiv(FDiv(FDiv(Whole(1), Whole(24)), Whole(365)),
                   Whole(serverLifespan))),
         FDiv(e.VCPU, e.TotalVCPU))

\* Metrics.Upsert: the metric replaces the stored metric of its name
Upsert(metrics, metric) ==
    [n \in DOMAIN metrics \cup {metric.Name} |->
        IF n = metric.Name THEN metric ELSE metrics[n]]

\* factors.GetProviderEmissionFactors(provider, DataPath): fails when the
\* provider has no factor file or the file cannot be read
GetProviderEmissionFactors(provider, readable) ==
    IF provider \in DOMAIN ProviderFactors /\ readable
    THEN [err |-> FALSE, factors |-> ProviderFactors[provider]]
    ELSE [err |-> TRUE]

\* a region lookup that falls back on a zero intensity
LookupRegionOrZero(coefficient, region) ==
    IF region \in DOMAIN coefficient
    THEN [ok |-> TRUE, value |-> coefficient[region]]
    ELSE [ok |-> TRUE, value |-> Whole(0)]

\* gridCO2eTons, ok := emFactors.Coefficient[instance.Region]
LookupRegion(coefficient, region) ==
    IF region \in DOMAIN coefficient
    THEN [ok |-> TRUE, value |-> coefficient[region]]
    ELSE [ok |-> FALSE]

\* the tier resolution of handleEvent: the precise entry of the kind when
\* awsInstances has one, else the two-point curve and the derived embodied
\* factor of the fallback specs
ResolveTier(precise, specs, kind) ==
    IF kind \in DOMAIN precise
    THEN [tier |-> "precise",
          wattage |-> precise[kind].PkgWatt,
          vCPU |-> precise[kind].VCPU,
          embodiedFactor |-> precise[kind].EmbodiedHourlyGCO2e]
    ELSE [tier |-> "fallback",
          wattage |-> << [Percentage |-> 0, Wattage |-> specs.MinWatts],
                         [Percentage |-> 100, Wattage |-> specs.MaxWatts] >>,
          vCPU |-> 0,
          embodiedFactor |-> hourlyEmbodiedEmissions(specs)]

\* the range loop over the instance's metrics: a metric whose calculation
\* fails is logged and left as it is, the others get their emission upserted
RECURSIVE CalculateMetrics(_, _, _, _)
CalculateMetrics(interval, p, metrics, todo) ==
    IF todo = {} THEN metrics
    ELSE LET n == CHOOSE x \in todo : TRUE
             v == metrics[n]
             opEm == operationalEmissions(interval, p, v)
             next == IF opEm.err THEN metrics
                     ELSE Upsert(metrics,
                            [v EXCEPT !.Emissions =
                                NewResourceEmission(opEm.value)])
         IN  CalculateMetrics(interval, p, next, todo \ {n})

\* the errors the range loop logs: the message of every metric whose
\* calculation failed
MetricErrors(interval, p, metrics) ==
    [n \in {m \in DOMAIN metrics :
                operationalEmissions(interval, p, metrics[m]).err} |->
        operationalEmissions(interval, p, metrics[n]).msg]

\* no tier resolved: the handler returned before params was filled
NoTier == [tier |-> "none"]

\* what handling one event did: the events published, the loads of the
\* provider factors, where the handler returned, the metrics it processed,
\* the instance of the event as the handler leaves it, the tier params was
\* filled from and the errors logged for metrics
Handled(published, loads, outcome, processed, data) ==
    [published |-> published, loads |-> loads, outcome |-> outcome,
     processed |-> processed, data |-> data, tier |-> NoTier,
     errors |-> EmptyTable]

\* handleEvent
handleEvent(e, precise, interval, readable) ==
    IF e.Data.kind # "Instance"
    THEN Handled(<<>>, 0, "unknown event", {}, e.Data)
    ELSE
    LET instance == e.Data.value
        load == GetProviderEmissionFactors(instance.Provider, readable)
    IN
    IF load.err
    THEN Handled(<<>>, 1, "no factors", {}, e.Data)
    ELSE
    LET emFactors == load.factors
        grid == LookupRegion(emFactors.Coefficient, instance.Region)
    IN
    IF ~grid.ok
    THEN Handled(<<>>, 1, "no region", {}, e.Data)
    ELSE
    IF instance.Kind \notin DOMAIN emFactors.Embodied
    THEN Handled(<<>>, 1, "no kind", {}, e.Data)
    ELSE
    LET specs == emFactors.Embodied[instance.Kind]
        tier == ResolveTier(precise, specs, instance.Kind)
        params == [gridCO2e |-> FMul(grid.value, Whole(1000 * 1000)),
                   pue |-> emFactors.AveragePUE,
                   wattage |-> tier.wattage,
                   vCPU |-> tier.vCPU,
                   embodiedFactor |-> tier.embodiedFactor]
        metrics == CalculateMetrics(interval, params, instance.Metrics,
                                    DOMAIN instance.Metrics)
        annotated == [instance EXCEPT
                        !.Metrics = metrics,
                        !.EmbodiedEmissions = NewResourceEmission(
                            embodiedEmissions(interval, params.embodiedFactor))]
    IN  [Handled(<< [Type |-> EmissionsCalculatedEvent,
                     Data |-> InstanceData(annotated)] >>,
                 1, "calculated", DOMAIN instance.Metrics,
                 \* instance is a copy of the event's, its Metrics map is not
                 InstanceData([instance EXCEPT !.Metrics = metrics]))
           EXCEPT !.tier = tier,
                  !.errors = MetricErrors(interval, params, instance.Metrics)]

\* Handle without the switch on the event type
HandleAnyType(e, precise, interval, readable) ==
    handleEvent(e, precise, interval, readable)

\* Handle: only MetricsCollectedEvent is handled
Handle(e, precise, interval, readable) ==
    IF e.Type = MetricsCollectedEvent
    THEN handleEvent(e, precise, interval, readable)
    ELSE Handled(<<>>, 0, "ignored", {}, e.Data)

(***************************************************************************)
(* Calculator: operations                                                  *)
(***************************************************************************)
\* ProvidersConfig.Interval values, in minutes
CalcIntervals == {5, 60}

\* no event handled yet
NoEvent ==
    [any |-> FALSE, event |-> [Type |-> "none", Data |-> OtherData],
     readable |-> TRUE,
     result |-> Handled(<<>>, 0, "none", {}, OtherData)]

CalcInit ==
    /\ calcHandler = "none"
    /\ awsInstances = EmptyTable
    /\ calcInterval \in CalcIntervals
    /\ calcLast = NoEvent
    /\ calcHandled = 0
    /\ calcPublished = 0
    /\ factorLoads = 0
    /\ factorsSetup = "none"

\* NewHandler returning no handler as well when the precise dataset cannot be
\* fetched
NewHandlerStrict ==
    /\ calcHandler = "none"
    /\ \E cloned \in BOOLEAN, fetched \in BOOLEAN :
          IF ~cloned
          THEN /\ calcHandler' = "nil"
               /\ factorsSetup' = "clone_failed"
               /\ UNCHANGED awsInstances
          ELSE IF ~fetched
               THEN /\ calcHandler' = "nil"
                    /\ factorsSetup' = "fetch_failed"
                    /\ awsInstances' = EmptyTable
               ELSE /\ calcHandler' = "ready"
                    /\ factorsSetup' = "ok"
                    /\ awsInstances' = PreciseData
    /\ UNCHANGED <<calcInterval, calcLast, calcHandled, calcPublished,
                   factorLoads>>
    /\ UNCHANGED <<schedVars, ecVars>>

\* NewHandler: no handler when CloneAndUpdateFactorsData fails; else
\* awsInstances is what getProviderEC2EmissionFactors returned (nil on error)
NewHandler ==
    /\ calcHandler = "none"
    /\ \E cloned \in BOOLEAN, fetched \in BOOLEAN :
          IF ~cloned
          THEN /\ calcHandler' = "nil"
               /\ factorsSetup' = "clone_failed"
               /\ UNCHANGED awsInstances
          ELSE /\ calcHandler' = "ready"
               /\ factorsSetup' = IF fetched THEN "ok" ELSE "fetch_failed"
               /\ awsInstances' = IF fetched THEN PreciseData ELSE EmptyTable
    /\ UNCHANGED <<calcInterval, calcLast, calcHandled, calcPublished,
                   factorLoads>>
    /\ UNCHANGED <<schedVars, ecVars>>

\* the bus hands an event to Handle
HandleEvent ==
    /\ calcHandler = "ready"
    /\ calcHandled < MaxEvents
    /\ \E e \in Events, readable \in BOOLEAN :
          LET r == Handle(e, awsInstances, calcInterval, readable)
          IN  /\ calcLast' = [any |-> TRUE, event |-> e,
                              readable |-> readable, result |-> r]
              /\ calcPublished' = calcPublished + Len(r.published)
              /\ factorLoads' = factorLoads + r.loads
    /\ calcHandled' = calcHandled + 1
    /\ UNCHANGED <<calcHandler, awsInstances, calcInterval, factorsSetup>>
    /\ UNCHANGED <<schedVars, ecVars>>

\* the bus hands the handler the event it has just published itself
HandleOwnEvent ==
    /\ calcHandler = "ready"
    /\ calcHandled < MaxEvents
    /\ calcLast.result.published # <<>>
    /\ LET e == calcLast.result.published[1]
           r == Handle(e, awsInstances, calcInterval, TRUE)
       IN  /\ calcLast' = [any |-> TRUE, event |-> e, readable |-> TRUE,
                           result |-> r]
           /\ calcPublished' = calcPublished + Len(r.published)
           /\ factorLoads' = factorLoads + r.loads
    /\ calcHandled' = calcHandled + 1
    /\ UNCHANGED <<calcHandler, awsInstances, calcInterval, factorsSetup>>
    /\ UNCHANGED <<schedVars, ecVars>>

CalcNext ==
    \/ NewHandler
    \/ HandleEvent
    \/ HandleOwnEvent

(***************************************************************************)
(* Specifications                                                          *)
(***************************************************************************)
SchedIdle ==
    /\ project = ""
    /\ accountInterval = 5
    /\ tickerC = 0
    /\ tickerStopped = FALSE
    /\ ticksFired = 0
    /\ ticksReceived = 0
    /\ callerPc = "idle"
    /\ loopPc = "none"
    /\ cancelCalls = 0
    /\ cancelsReturned = 0
    /\ released = 0
    /\ passPc = [t \in Threads |-> "idle"]
    /\ passWindow = [t \in Threads |-> 0]
    /\ passInsts = [t \in Threads |-> <<>>]
    /\ passPubd = [t \in Threads |-> <<>>]
    /\ passOutcome = [t \in Threads |-> "none"]
    /\ passesStarted = [t \in Threads |-> 0]

EcIdle ==
    /\ ecPages = <<>>
    /\ ecPc = "idle"
    /\ ecOutput = 0
    /\ ecCollected = <<>>
    /\ ecCache = {}
    /\ ecCacheBefore = {}
    /\ ecResult = "none"

CalcIdle ==
    /\ calcHandler = "idle"
    /\ awsInstances = EmptyTable
    /\ calcInterval = 5
    /\ calcLast = NoEvent
    /\ calcHandled = 0
    /\ calcPublished = 0
    /\ factorLoads = 0
    /\ factorsSetup = "none"

Init == SchedInit /\ EcIdle /\ CalcIdle

RefreshInit == EcInit /\ SchedIdle /\ CalcIdle

CalculatorInit == CalcInit /\ SchedIdle /\ EcIdle

\* the scheduler of one account
Spec == Init /\ [][SchedNext]_vars

\* one call of ec2Client.Refresh
RefreshSpec == RefreshInit /\ [][EcNext]_vars

\* the calculator: NewHandler, then events
CalcSpec == CalculatorInit /\ [][CalcNext]_vars

(***************************************************************************)
(* Scheduler: properties                                                   *)
(***************************************************************************)
\* the cancellation signal of some Cancel call has been received by the loop
DoneDelivered ==
    \/ callerPc \in {"cancel_stop", "cancel_release"}
    \/ cancelsReturned >= 1

\* C1: once a Cancel call has returned, the loop goroutine has ended, no
\* collection pass is in flight, and from then on no pass starts and no
\* MetricsCollected event is published.
C1_NoCollectionAfterCancel ==
    [][ /\ cancelsReturned' >= 1 =>
              /\ loopPc' = "exited"
              /\ \A t \in Threads : passPc'[t] = "idle"
        /\ cancelsReturned >= 1 =>
              /\ passPubd' = passPubd
              /\ passesStarted' = passesStarted ]_vars

\* C1 witness: Cancel has returned after events were published, and a tick is
\* still buffered in the ticker's channel.
C1_Witness ==
    /\ cancelsReturned = 1
    /\ tickerC = 1
    /\ \E t \in Threads : Len(passPubd[t]) > 0

\* C2: whenever Cancel is at its signalling statement while the loop executes
\* a collection pass, Cancel can proceed (it does not have to wait for the pass
\* to finish, in particular not for a provider call that never returns).
C2_CancelProceedsDuringPass ==
    (callerPc = "cancel_send" /\ loopPc = "process") => ENABLED LoopRecvDone

\* C3: a second Cancel, issued after the first one returned, is never left
\* sending its signal with no goroutine there to receive it.
C3_SecondCancelReturns ==
    ~(cancelsReturned >= 1 /\ callerPc = "cancel_send" /\ loopPc = "exited")

\* C4: Schedule makes exactly one immediate pass, which needs no tick and is
\* over when Schedule returns; every tick the loop receives starts exactly one
\* pass.
C4_ImmediatePassThenOnePerTick ==
    /\ passesStarted["caller"] <= 1
    /\ (callerPc = "process" /\ passesStarted["caller"] = 0) =>
          ENABLED ProcessEntry("caller")
    /\ callerPc \notin {"idle", "process"} =>
          passesStarted["caller"] = 1 /\ passPc["caller"] = "idle"
    /\ passesStarted["loop"] + (IF passPc["loop"] = "entry" THEN 1 ELSE 0)
          = ticksReceived

\* C4 witness: Schedule has returned from a successful immediate pass although
\* the ticker never fired.
C4_Witness ==
    /\ callerPc = "ready"
    /\ cancelCalls = 0
    /\ ticksFired = 0
    /\ passOutcome["caller"] = "ok"

\* C5: a pass whose provider call failed has published nothing and is over;
\* the loop is back at its select (unless a Cancel ended it since), where a
\* buffered tick starts the next pass.
C5_ErrorPassAbandonedLoopContinues ==
    /\ \A t \in Threads :
          passOutcome[t] = "err" => passPubd[t] = <<>> /\ passPc[t] = "idle"
    /\ (passOutcome["loop"] = "err" /\ ~DoneDelivered) => loopPc = "select"
    /\ (passOutcome["loop"] = "err" /\ loopPc = "select" /\ tickerC = 1) =>
          ENABLED LoopRecvTick

\* C5 witness: the loop's pass failed, no Cancel was called, and the next tick
\* is waiting for the loop.
C5_Witness ==
    /\ passOutcome["loop"] = "err"
    /\ loopPc = "select"
    /\ tickerC = 1
    /\ cancelCalls = 0

\* C6: the events a pass has published are, in order, one MetricsCollected per
\* instance the provider returned; a finished successful pass has published
\* all of them and any other pass none.
C6_OneEventPerInstanceInOrder ==
    \A t \in Threads :
       /\ Len(passPubd[t]) <= Len(passInsts[t])
       /\ \A i \in 1..Len(passPubd[t]) :
             passPubd[t][i] = MetricsCollected(passInsts[t][i])
       /\ (passOutcome[t] = "ok" /\ passPc[t] = "idle") =>
             Len(passPubd[t]) = Len(passInsts[t])
       /\ passOutcome[t] # "ok" => passPubd[t] = <<>>

\* C6 witness: a finished pass that returned two different instances.
C6_Witness ==
    \E t \in Threads :
       /\ passOutcome[t] = "ok"
       /\ passPc[t] = "idle"
       /\ Len(passInsts[t]) = 2
       /\ passInsts[t][1] # passInsts[t][2]

\* C7: the interval handed to GetMetricsForInstances is the interval
\* configured for the account.
C7_WindowIsAccountInterval ==
    \A t \in Threads :
       passPc[t] \in {"call", "hung"} => passWindow[t] = accountInterval

(***************************************************************************)
(* EC2 discovery: properties                                               *)
(***************************************************************************)
\* C8: when Refresh has returned nil, the cache holds a resource for every
\* instance of every reservation of every page the calls returned.
C8_CacheHoldsEveryPage ==
    ecResult = "nil" =>
       \A k \in 1..Len(ecCollected) : PageResources(ecCollected[k]) \subseteq ecCache

\* C18: the pass for a tick is not held back by the immediate pass of
\* Schedule: while that pass is in flight and a tick is waiting, the loop can
\* take the tick and start its own pass, so two passes of one scheduler can be
\* in flight together.
C18_TickPassOverlapsImmediatePass ==
    (passPc["caller"] # "idle" /\ loopPc = "select" /\ tickerC = 1) =>
        ENABLED LoopRecvTick

\* C18 witness: the immediate pass and a tick-driven pass are both inside
\* process(), each past its entry.
C18_Witness ==
    /\ passPc["caller"] \in {"call", "hung", "publish"}
    /\ passPc["loop"] \in {"call", "hung", "publish"}

\* C19: the loop takes a tick, and starts the pass for it, only from its
\* select, when its previous pass has returned; the ticker's channel holds at
\* most one tick, so the ticks that arrive during a pass start at most one
\* further pass, after it; and a second pass is in flight only next to the
\* immediate pass of Schedule.
C19_TickPassesSerialized ==
    [][ /\ ticksReceived' # ticksReceived =>
              /\ ticksReceived' = ticksReceived + 1
              /\ loopPc = "select"
              /\ passPc["loop"] = "idle"
              /\ passPc'["loop"] = "entry"
        /\ (passPc'["loop"] = "entry" /\ passPc["loop"] # "entry") =>
              ticksReceived' = ticksReceived + 1
        /\ tickerC' \in {0, 1}
        /\ passesStarted'["loop"] <= ticksReceived'
        /\ ticksReceived' <= ticksFired'
        /\ (passPc'["loop"] # "idle") = (loopPc' = "process")
        /\ (passPc'["caller"] # "idle") = (callerPc' = "process")
      ]_vars

\* C19 witness: two ticks fired while the loop was inside one pass; one of
\* them waits in the channel and the loop has started a single pass.
C19_Witness ==
    /\ passPc["loop"] \in {"call", "hung", "publish"}
    /\ ticksFired = 2
    /\ ticksReceived = 1
    /\ tickerC = 1
    /\ passesStarted["loop"] = 1

\* C20: when a DescribeInstances call of Refresh fails, on the first page or
\* on a later one, Refresh returns an error and the cache is as it was before
\* the call.
C20_FailedRefreshLeavesCache ==
    /\ ecResult = "error" => ecCache = ecCacheBefore
    /\ (ecPc = "done") = (ecResult # "none")
    /\ (ecPc = "start" \/ (ecPc = "paging" /\ HasNextToken(ecOutput))) =>
          ENABLED (RefreshFirstFails \/ RefreshNextPageFails)

\* C20 witness: a follow-up call failed after a first page with instances
\* had been fetched.
C20_Witness ==
    /\ ecResult = "error"
    /\ ecOutput = 1
    /\ PageResources(ecPages[1]) # {}
    /\ ecCache = {}

(***************************************************************************)
(* Calculator: properties                                                  *)
(***************************************************************************)
\* the last event handled was a MetricsCollectedEvent carrying an instance
LastIsCollectedInstance ==
    /\ calcLast.any
    /\ calcLast.event.Type = MetricsCollectedEvent
    /\ calcLast.event.Data.kind = "Instance"

LastInstance == calcLast.event.Data.value

\* the provider's factors could be loaded when the last event was handled
LastFactorsLoaded ==
    LastInstance.Provider \in DOMAIN ProviderFactors /\ calcLast.readable

LastRegionKnown ==
    LastInstance.Region
       \in DOMAIN ProviderFactors[LastInstance.Provider].Coefficient

\* the kind has data in the precise dataset or in the fallback embodied table
LastKindResolvable ==
    \/ LastInstance.Kind \in DOMAIN awsInstances
    \/ LastInstance.Kind
          \in DOMAIN ProviderFactors[LastInstance.Provider].Embodied

\* C9: handling a MetricsCollected event whose instance has a known region and
\* a resolvable kind publishes exactly one EmissionsCalculated event, after
\* every metric of the instance was processed, whatever metrics failed.
C9_OneEventAfterAllMetrics ==
    (LastIsCollectedInstance /\ LastFactorsLoaded /\ LastRegionKnown
       /\ LastKindResolvable) =>
          /\ Len(calcLast.result.published) = 1
          /\ calcLast.result.published[1].Type = EmissionsCalculatedEvent
          /\ calcLast.result.processed = DOMAIN LastInstance.Metrics

\* what remains of C9 for the kinds of the fallback embodied table: one event,
\* all metrics processed, also when every metric failed
OneEventForEmbodiedTableKinds ==
    (LastIsCollectedInstance /\ LastFactorsLoaded /\ LastRegionKnown
       /\ LastInstance.Kind
            \in DOMAIN ProviderFactors[LastInstance.Provider].Embodied) =>
          /\ Len(calcLast.result.published) = 1
          /\ calcLast.result.published[1].Type = EmissionsCalculatedEvent
          /\ calcLast.result.processed = DOMAIN LastInstance.Metrics

\* C10: when the factors cannot be loaded, the region is absent from the grid
\* intensity map, or the kind is in neither dataset, handling the event
\* publishes nothing, leaves the instance and its metrics without any
\* emission value, and leaves the handler able to take the next event.
C10_MissingFactorsSkipInstance ==
    (LastIsCollectedInstance
       /\ (\/ ~LastFactorsLoaded
           \/ ~LastRegionKnown
           \/ ~LastKindResolvable)) =>
          /\ calcLast.result.published = <<>>
          /\ calcLast.result.data = calcLast.event.Data
          /\ calcLast.result.data.value.EmbodiedEmissions = NoEmission
          /\ \A n \in DOMAIN calcLast.result.data.value.Metrics :
                calcLast.result.data.value.Metrics[n].Emissions = NoEmission
          /\ calcHandler = "ready"
          /\ calcHandled < MaxEvents => ENABLED HandleEvent

\* C10 witness: the second event handled is an instance of a region the
\* factors do not know, with a CPU metric that could have been calculated.
C10_Witness ==
    /\ LastIsCollectedInstance
    /\ LastFactorsLoaded
    /\ ~LastRegionKnown
    /\ LastInstance.Kind = "m5.large"
    /\ CPU \in DOMAIN LastInstance.Metrics
    /\ calcHandled = 2
    /\ calcPublished = 1

\* the last event handled led to a published EmissionsCalculated event
LastCalculated ==
    LastIsCollectedInstance /\ calcLast.result.published # <<>>

\* the instance carried by the event published for the last event
LastPublishedInstance == calcLast.result.published[1].Data.value

\* the fallback specs of the last instance's kind
LastSpecs ==
    ProviderFactors[LastInstance.Provider].Embodied[LastInstance.Kind]

\* C11: an instance of a known region whose kind has an entry in the precise
\* dataset is resolved from that entry (curve, vCPU count, embodied-hourly
\* factor) and its EmissionsCalculated event is published.
C11_PreciseTierResolves ==
    (LastIsCollectedInstance /\ LastFactorsLoaded /\ LastRegionKnown
       /\ LastInstance.Kind \in DOMAIN awsInstances) =>
          /\ Len(calcLast.result.published) = 1
          /\ calcLast.result.tier.tier = "precise"
          /\ calcLast.result.tier.wattage
                = awsInstances[LastInstance.Kind].PkgWatt
          /\ calcLast.result.tier.vCPU = awsInstances[LastInstance.Kind].VCPU
          /\ calcLast.result.tier.embodiedFactor
                = awsInstances[LastInstance.Kind].EmbodiedHourlyGCO2e

\* what remains of C11 for the kinds that also are in the fallback embodied
\* table: the precise entry is used, not the fallback specs
PreciseTierForEmbodiedTableKinds ==
    (LastIsCollectedInstance /\ LastFactorsLoaded /\ LastRegionKnown
       /\ LastInstance.Kind \in DOMAIN awsInstances
       /\ LastInstance.Kind
            \in DOMAIN ProviderFactors[LastInstance.Provider].Embodied) =>
          /\ Len(calcLast.result.published) = 1
          /\ calcLast.result.tier.tier = "precise"
          /\ calcLast.result.tier.wattage
                = awsInstances[LastInstance.Kind].PkgWatt
          /\ calcLast.result.tier.vCPU = awsInstances[LastInstance.Kind].VCPU
          /\ calcLast.result.tier.embodiedFactor
                = awsInstances[LastInstance.Kind].EmbodiedHourlyGCO2e

\* C12: for a kind without a precise entry and with fallback specs the curve
\* is (0, MinWatts), (100, MaxWatts), the dataset vCPU is 0, and the embodied
\* hourly factor is TotalEmbodied * ((1/24/365)/6) * (VCPU/TotalVCPU).
C12_FallbackTier ==
    (LastIsCollectedInstance /\ LastFactorsLoaded /\ LastRegionKnown
       /\ LastInstance.Kind \notin DOMAIN awsInstances
       /\ LastInstance.Kind
            \in DOMAIN ProviderFactors[LastInstance.Provider].Embodied) =>
          /\ calcLast.result.tier.tier = "fallback"
          /\ calcLast.result.tier.wattage
                = << [Percentage |-> 0, Wattage |-> LastSpecs.MinWatts],
                     [Percentage |-> 100, Wattage |-> LastSpecs.MaxWatts] >>
          /\ calcLast.result.tier.vCPU = 0
          /\ calcLast.result.tier.embodiedFactor
                = Frac(LastSpecs.TotalEmbodiedKiloWattCO2e[1]
                          * LastSpecs.VCPU[1] * LastSpecs.TotalVCPU[2],
                       LastSpecs.TotalEmbodiedKiloWattCO2e[2] * 24 * 365 * 6
                          * LastSpecs.VCPU[2] * LastSpecs.TotalVCPU[1])

\* C12 witness: the precise dataset is loaded, the kind of the instance is in
\* the fallback table only, and its event was published.
C12_Witness ==
    /\ LastCalculated
    /\ awsInstances = PreciseData
    /\ LastInstance.Kind = "t3.nano"
    /\ CPU \in DOMAIN LastInstance.Metrics

\* C13: a metric that is not a CPU metric gets an error and no emission value;
\* in the published instance a metric carries an emission only if it is a CPU
\* metric whose calculation succeeded.
C13_UnsupportedMetricsGetNoEmission ==
    LastCalculated =>
       /\ DOMAIN LastPublishedInstance.Metrics = DOMAIN LastInstance.Metrics
       /\ \A n \in DOMAIN LastPublishedInstance.Metrics :
             /\ LastInstance.Metrics[n].Name # CPU =>
                   /\ n \in DOMAIN calcLast.result.errors
                   /\ LastPublishedInstance.Metrics[n] = LastInstance.Metrics[n]
             /\ LastPublishedInstance.Metrics[n].Emissions.set =>
                   /\ LastInstance.Metrics[n].Name = CPU
                   /\ n \notin DOMAIN calcLast.result.errors

\* C13 witness: an published instance with a CPU, a memory, a storage and a
\* network metric, of which the CPU metric carries an emission.
C13_Witness ==
    /\ LastCalculated
    /\ {CPU, Memory, Storage, Network} \subseteq DOMAIN LastInstance.Metrics
    /\ LastPublishedInstance.Metrics[CPU].Emissions.set

\* C14: the vCPU count of a CPU calculation is the dataset's when that is not
\* 0 and the metric's UnitAmount otherwise; when both are 0 the calculation
\* fails on the vCPU count, before the curve is looked at, and no emission is
\* attached.
C14_VCPUChoice ==
    (LastCalculated /\ CPU \in DOMAIN LastInstance.Metrics) =>
       LET given == LastInstance.Metrics[CPU]
           out == LastPublishedInstance.Metrics[CPU]
           t == calcLast.result.tier
           used == IF t.vCPU # 0 THEN t.vCPU ELSE given.UnitAmount
       IN  /\ used = 0 =>
                 /\ ~out.Emissions.set
                 /\ CPU \in DOMAIN calcLast.result.errors
                 /\ calcLast.result.errors[CPU] = "error vCPU set to 0"
           /\ (used # 0 /\ Len(t.wattage) > 0) =>
                 /\ out.Emissions.set
                 /\ out.Emissions.value.vCPUHours
                       = Frac(calcInterval * used, 60)
           /\ (used # 0 /\ Len(t.wattage) = 0) => ~out.Emissions.set

\* C14 witness: the dataset gives 2 vCPUs, the metric's UnitAmount is 4, and
\* the CPU emission was calculated.
C14_Witness ==
    /\ LastCalculated
    /\ CPU \in DOMAIN LastInstance.Metrics
    /\ calcLast.result.tier.vCPU = 2
    /\ LastInstance.Metrics[CPU].UnitAmount = 4
    /\ LastPublishedInstance.Metrics[CPU].Emissions.set

\* C15: handling an event publishes at most one event; an event that is not a
\* MetricsCollectedEvent, or does not carry an instance, publishes nothing,
\* loads nothing and changes neither the handler nor the event's payload.
C15_DroppedEventsChangeNothing ==
    [][ calcHandled' = calcHandled + 1 =>
          /\ calcPublished' <= calcPublished + 1
          /\ (\/ calcLast'.event.Type # MetricsCollectedEvent
              \/ calcLast'.event.Data.kind # "Instance") =>
                 /\ calcLast'.result.published = <<>>
                 /\ calcLast'.result.data = calcLast'.event.Data
                 /\ calcPublished' = calcPublished
                 /\ factorLoads' = factorLoads
                 /\ awsInstances' = awsInstances
                 /\ calcHandler' = calcHandler ]_vars

\* C15 witness: the handler was handed the EmissionsCalculated event it had
\* published itself, and one event has been published in all.
C15_Witness ==
    /\ calcLast.any
    /\ calcLast.event.Type = EmissionsCalculatedEvent
    /\ calcLast.event.Data.kind = "Instance"
    /\ calcLast.event.Data.value.EmbodiedEmissions.set
    /\ calcHandled = 2
    /\ calcPublished = 1

\* C16: handling an event makes no call of GetProviderEmissionFactors and
\* leaves the precise per-kind table as it is.
C16_NoLoadWhileHandling ==
    [][ calcHandled' = calcHandled + 1 =>
          factorLoads' = factorLoads /\ awsInstances' = awsInstances ]_vars

\* C17: every published instance carries the embodied emission
\* hourlyEmbodied / 60 * intervalMinutes of the tier resolved for its kind,
\* whatever its metrics are and however they fared.
C17_EmbodiedOncePerEvent ==
    LastCalculated =>
       LastPublishedInstance.EmbodiedEmissions
          = [set |-> TRUE,
             value |-> Frac(calcLast.result.tier.embodiedFactor[1] * calcInterval,
                            calcLast.result.tier.embodiedFactor[2] * 60),
             unit |-> "gCO2eqkWh"]

\* C17 witness: an instance without any metric was published, for an interval
\* of 5 minutes.
C17_Witness ==
    /\ LastCalculated
    /\ DOMAIN LastInstance.Metrics = {}
    /\ calcInterval = 5

\* C21: NewHandler returns no handler only when the clone/update of the
\* factors dataset fails; when only the precise dataset cannot be loaded it
\* returns a handler whose precise table is empty, and that handler resolves
\* every instance it handles through the fallback tier and publishes the
\* instances the fallback data covers.
C21_PreciseDatasetFailureDegrades ==
    /\ (calcHandler = "nil") = (factorsSetup = "clone_failed")
    /\ factorsSetup = "fetch_failed" =>
          /\ calcHandler = "ready"
          /\ awsInstances = EmptyTable
          /\ calcHandled < MaxEvents => ENABLED HandleEvent
          /\ LastIsCollectedInstance =>
                calcLast.result.tier.tier \in {"none", "fallback"}
          /\ LastCalculated => calcLast.result.tier.tier = "fallback"
          /\ (LastIsCollectedInstance /\ LastFactorsLoaded /\ LastRegionKnown
                /\ LastInstance.Kind
                     \in DOMAIN ProviderFactors[LastInstance.Provider].Embodied)
                => /\ LastCalculated
                   /\ calcLast.result.tier.wattage
                         = << [Percentage |-> 0,
                               Wattage |-> LastSpecs.MinWatts],
                              [Percentage |-> 100,
                               Wattage |-> LastSpecs.MaxWatts] >>

\* C21 witness: the precise dataset could not be loaded, and an instance of a
\* kind that dataset has an entry for was handled and published from the
\* fallback specs.
C21_Witness ==
    /\ factorsSetup = "fetch_failed"
    /\ LastCalculated
    /\ LastInstance.Kind = "m5.large"
    /\ LastInstance.Kind \in DOMAIN PreciseData
    /\ calcLast.result.tier.tier = "fallback"

====
